---- MODULE Spec2Model ----
(***************************************************************************)
(* Replay engine of the manufacturing simulation player:                   *)
(* desktop_app/model.py (MachineEvent, Transport, MachineState,            *)
(* SimulationData) and desktop_app/controller.py (SimulationController).   *)
(*                                                                         *)
(* Time is counted in ticks of 0.1 simulation minutes, so the grace period *)
(* of 0.1 minutes is one tick and t = 15.2 is tick 152.  Python's None is  *)
(* the empty tuple <<>> and a present optional value x is <<x>>.           *)
(***************************************************************************)
EXTENDS Integers, Sequences, FiniteSets, TLC

VARIABLES
    data,               \* SimulationData: events, start_time, end_time, machines
    current_time,       \* SimulationController.current_time
    pointer,            \* SimulationController.pointer (0-based index of next event)
    machine_states,     \* SimulationController.machine_states
    transports,         \* SimulationController.transports
    active_transports,  \* SimulationController._active_transports
    applied,            \* history: how often each log event was applied since reset
    lastOp,             \* history: the last public call, its argument, whether it
                        \* ran reset(), and the pointer it started from
    stage,              \* history: progress along the documented call sequence
    reader,             \* what a rendering collaborator holds and sees
    probe               \* a single call under study: its inputs and its result

vars == <<data, current_time, pointer, machine_states, transports,
          active_transports, applied, lastOp, stage, reader, probe>>

\* the controller, its log and its history
ctlVars == <<data, current_time, pointer, machine_states, transports,
             active_transports, applied, lastOp, stage, reader>>

-----------------------------------------------------------------------------
(* Bounds of the model *)

MaxLogLen == 4

MaxDelta == 2

(* controller.py line 90: the 0.1 minute grace period, in ticks *)
Grace == 1

-----------------------------------------------------------------------------
(* Python values *)

None == <<>>

Some(x) == <<x>>

\* truthiness of an Optional[str]: None and "" are falsy
Truthy(o) == o # None /\ o[1] # ""

\* a or b on Optional[str]
OrElse(a, b) == IF Truthy(a) THEN a ELSE b

\* a or b on str
StrOr(a, b) == IF a # "" THEN a ELSE b

Max(a, b) == IF a >= b THEN a ELSE b

Min(a, b) == IF a <= b THEN a ELSE b

EmptyDict == <<>>

DictPut(d, k, v) == [x \in (DOMAIN d) \cup {k} |-> IF x = k THEN v ELSE d[x]]

DictPop(d, k) == [x \in (DOMAIN d) \ {k} |-> d[x]]

-----------------------------------------------------------------------------
(* model.py *)

MachineEvent(t, m, k, p, e, f, to, q) ==
    [time_min |-> t, machine |-> m, event |-> k, product_id |-> p,
     entity_id |-> e, from_machine |-> f, to_machine |-> to, queue_length |-> q]

Transport(p, e, f, to, st) ==
    [product_id |-> p, entity_id |-> e, from_machine |-> f, to_machine |-> to,
     start_time |-> st, end_time |-> None]

MachineState(m) ==
    [machine |-> m, queue |-> 0, status |-> "idle", last_event |-> None]

\* variant: the quotient is returned without clamping
ProgressUnclamped(tr, clock) ==
    IF tr.end_time = None THEN <<0, 1>>
    ELSE LET duration == tr.end_time[1] - tr.start_time IN
         IF duration <= 0 THEN <<1, 1>>
         ELSE <<clock - tr.start_time, duration>>

\* Transport.progress as the exact fraction <<numerator, denominator>>
progress(tr, clock) ==
    IF tr.end_time = None THEN <<0, 1>>
    ELSE LET duration == tr.end_time[1] - tr.start_time IN
         IF duration <= 0 THEN <<1, 1>>
         ELSE <<Max(0, Min(duration, clock - tr.start_time)), duration>>

\* variant: insertion before the elements with an equal time
RECURSIVE InsertUnstable(_, _)
InsertUnstable(s, e) ==
    IF s = <<>> THEN <<e>>
    ELSE IF s[Len(s)].time_min < e.time_min THEN Append(s, e)
    ELSE Append(InsertUnstable(SubSeq(s, 1, Len(s) - 1), e), s[Len(s)])

\* sorted(events, key=time_min): insertion after every element with time <= e's
RECURSIVE InsertByTime(_, _)
InsertByTime(s, e) ==
    IF s = <<>> THEN <<e>>
    ELSE IF s[Len(s)].time_min <= e.time_min THEN Append(s, e)
    ELSE Append(InsertByTime(SubSeq(s, 1, Len(s) - 1), e), s[Len(s)])

\* variant: the events are kept in the order supplied
SuppliedOrder(s) == s

RECURSIVE SortedByTime(_)
SortedByTime(s) ==
    IF s = <<>> THEN <<>>
    ELSE InsertByTime(SortedByTime(SubSeq(s, 1, Len(s) - 1)), s[Len(s)])

\* SimulationData.__init__ for a non-empty collection of events
SimulationData(evs) ==
    LET s == SortedByTime(evs) IN
    [events |-> s,
     start_time |-> s[1].time_min,
     end_time |-> s[Len(s)].time_min,
     machines |-> {s[i].machine : i \in 1..Len(s)} \ {""}]

\* variant: an empty collection gives a log object with no events
NewSimulationDataUnchecked(evs) ==
    IF evs = <<>>
    THEN [ok |-> TRUE,
          data |-> [events |-> <<>>, start_time |-> 0, end_time |-> 0,
                    machines |-> {}]]
    ELSE [ok |-> TRUE, data |-> SimulationData(evs)]

\* SimulationData(events) as the caller sees it: the object, or the error raised
NewSimulationData(evs) ==
    IF SortedByTime(evs) = <<>>
    THEN [ok |-> FALSE, error |-> "ValueError"]
    ELSE [ok |-> TRUE, data |-> SimulationData(evs)]

-----------------------------------------------------------------------------
(* controller.py: the operations as functions on the controller's fields *)

TransportKinds ==
    {"TRANSPORT_START", "TRANSPORT_END", "TRANSPORT_CANCEL", "TRANSPORT_OTHER"}

\* variant: the two identifiers as they are, without folding
TransportKeyRaw(event) == <<event.product_id, event.entity_id>>

TransportKey(event) ==
    <<StrOr(event.product_id, event.entity_id), StrOr(event.entity_id, event.product_id)>>

\* variant: TRANSPORT_START leaves an existing entry as it is
HandleTransportKeepsExisting(trs, event) ==
    LET key == TransportKey(event)
        has == key \in DOMAIN trs
    IN  IF event.event = "TRANSPORT_START" /\ ~has
        THEN DictPut(trs, key,
                 Transport(event.product_id, event.entity_id,
                           OrElse(event.from_machine, Some(event.machine)),
                           event.to_machine, event.time_min))
        ELSE IF event.event = "TRANSPORT_END" /\ has
        THEN LET tr == trs[key]
                 to == IF ~Truthy(tr.to_machine)
                       THEN OrElse(Some(event.machine), event.to_machine)
                       ELSE tr.to_machine
             IN  DictPut(trs, key, [tr EXCEPT !.to_machine = to,
                                              !.end_time = Some(event.time_min)])
        ELSE IF event.event = "TRANSPORT_CANCEL" /\ has
        THEN DictPop(trs, key)
        ELSE trs

\* variant: TRANSPORT_END always takes to_machine from the event
HandleTransportEndOverwrites(trs, event) ==
    LET key == TransportKey(event)
        has == key \in DOMAIN trs
    IN  IF event.event = "TRANSPORT_START"
        THEN DictPut(trs, key,
                 Transport(event.product_id, event.entity_id,
                           OrElse(event.from_machine, Some(event.machine)),
                           event.to_machine, event.time_min))
        ELSE IF event.event = "TRANSPORT_END" /\ has
        THEN LET tr == trs[key]
                 to == OrElse(Some(event.machine), event.to_machine)
             IN  DictPut(trs, key, [tr EXCEPT !.to_machine = to,
                                              !.end_time = Some(event.time_min)])
        ELSE IF event.event = "TRANSPORT_CANCEL" /\ has
        THEN DictPop(trs, key)
        ELSE trs

\* variant: TRANSPORT_CANCEL ends the transport and keeps its entry
HandleTransportCancelEnds(trs, event) ==
    LET key == TransportKey(event)
        has == key \in DOMAIN trs
    IN  IF event.event = "TRANSPORT_START"
        THEN DictPut(trs, key,
                 Transport(event.product_id, event.entity_id,
                           OrElse(event.from_machine, Some(event.machine)),
                           event.to_machine, event.time_min))
        ELSE IF event.event = "TRANSPORT_END" /\ has
        THEN LET tr == trs[key]
                 to == IF ~Truthy(tr.to_machine)
                       THEN OrElse(Some(event.machine), event.to_machine)
                       ELSE tr.to_machine
             IN  DictPut(trs, key, [tr EXCEPT !.to_machine = to,
                                              !.end_time = Some(event.time_min)])
        ELSE IF event.event = "TRANSPORT_CANCEL" /\ has
        THEN DictPut(trs, key, [trs[key] EXCEPT !.end_time = Some(event.time_min)])
        ELSE trs

_handle_transport(trs, event) ==
    LET key == TransportKey(event)
        has == key \in DOMAIN trs
    IN  IF event.event = "TRANSPORT_START"
        THEN DictPut(trs, key,
                 Transport(event.product_id, event.entity_id,
                           OrElse(event.from_machine, Some(event.machine)),
                           event.to_machine, event.time_min))
        ELSE IF event.event = "TRANSPORT_END" /\ has
        THEN LET tr == trs[key]
                 to == IF ~Truthy(tr.to_machine)
                       THEN OrElse(Some(event.machine), event.to_machine)
                       ELSE tr.to_machine
             IN  DictPut(trs, key, [tr EXCEPT !.to_machine = to,
                                              !.end_time = Some(event.time_min)])
        ELSE IF event.event = "TRANSPORT_CANCEL" /\ has
        THEN DictPop(trs, key)
        ELSE trs

\* variant: the unit change without the floor at 0
QueueAfterNoFloor(queue, event) ==
    LET q1 == IF event.queue_length # None THEN Max(0, event.queue_length[1]) ELSE queue
    IN  IF event.event = "QUEUE_IN" THEN q1 + 1
        ELSE IF event.event = "QUEUE_OUT" THEN q1 - 1
        ELSE q1

\* variant: the unit change first, the absolute override last
QueueAfterOverrideLast(queue, event) ==
    LET q1 == IF event.event = "QUEUE_IN" THEN Max(0, queue + 1)
              ELSE IF event.event = "QUEUE_OUT" THEN Max(0, queue - 1)
              ELSE queue
    IN  IF event.queue_length # None THEN Max(0, event.queue_length[1]) ELSE q1

\* the queue after the absolute override and the unit change of the kind
QueueAfter(queue, event) ==
    LET q1 == IF event.queue_length # None THEN Max(0, event.queue_length[1]) ELSE queue
    IN  IF event.event = "QUEUE_IN" THEN Max(0, q1 + 1)
        ELSE IF event.event = "QUEUE_OUT" THEN Max(0, q1 - 1)
        ELSE q1

\* variant: BREAKDOWN_CLEAR is not a status-setting kind
StatusAfterNoClear(status, event) ==
    IF event.event = "PROC_START" THEN "processing"
    ELSE IF event.event \in {"PROC_END", "PROC_COMPLETE"} THEN "idle"
    ELSE IF event.event = "BREAKDOWN_START" THEN "breakdown"
    ELSE IF event.event = "BREAKDOWN_END" THEN "idle"
    ELSE status

StatusAfter(status, event) ==
    IF event.event = "PROC_START" THEN "processing"
    ELSE IF event.event \in {"PROC_END", "PROC_COMPLETE"} THEN "idle"
    ELSE IF event.event = "BREAKDOWN_START" THEN "breakdown"
    ELSE IF event.event \in {"BREAKDOWN_END", "BREAKDOWN_CLEAR"} THEN "idle"
    ELSE status

\* variant: an event of a machine the registry lacks is dropped
ApplyEventKnownOnly(c, event) ==
    IF event.machine \notin DOMAIN c.machine_states THEN c
    ELSE LET st  == c.machine_states[event.machine]
             st1 == [st EXCEPT !.last_event = Some(event.event),
                               !.queue = QueueAfter(st.queue, event),
                               !.status = StatusAfter(st.status, event)]
         IN  [c EXCEPT !.machine_states = DictPut(c.machine_states, event.machine, st1),
                       !.transports = IF event.event \in TransportKinds
                                      THEN _handle_transport(c.transports, event)
                                      ELSE c.transports]

_apply_event(c, event) ==
    LET ms0 == IF event.machine \in DOMAIN c.machine_states
               THEN c.machine_states
               ELSE DictPut(c.machine_states, event.machine, MachineState(event.machine))
        st  == ms0[event.machine]
        st1 == [st EXCEPT !.last_event = Some(event.event),
                          !.queue = QueueAfter(st.queue, event),
                          !.status = StatusAfter(st.status, event)]
    IN  [c EXCEPT !.machine_states = DictPut(ms0, event.machine, st1),
                  !.transports = IF event.event \in TransportKinds
                                 THEN _handle_transport(c.transports, event)
                                 ELSE c.transports]

\* variant: finished transports are left out of the snapshot only
RefreshKeepsRegistry(c) ==
    LET gone(k) == /\ c.transports[k].end_time # None
                   /\ c.current_time > c.transports[k].end_time[1] + Grace
        keep == {k \in DOMAIN c.transports : ~gone(k)}
        clone(tr) == IF tr.to_machine = None
                     THEN [tr EXCEPT !.to_machine = OrElse(tr.to_machine, tr.from_machine)]
                     ELSE tr
    IN  [c EXCEPT !.active_transports = [k \in keep |-> clone(c.transports[k])]]

_refresh_active_transports(c) ==
    LET gone(k) == /\ c.transports[k].end_time # None
                   /\ c.current_time > c.transports[k].end_time[1] + Grace
        keep == {k \in DOMAIN c.transports : ~gone(k)}
        clone(tr) == IF tr.to_machine = None
                     THEN [tr EXCEPT !.to_machine = OrElse(tr.to_machine, tr.from_machine)]
                     ELSE tr
    IN  [c EXCEPT !.active_transports = [k \in keep |-> clone(c.transports[k])],
                  !.transports = [k \in keep |-> c.transports[k]]]

\* variant: the transport registry is not cleared
ResetKeepsTransports(c) ==
    [current_time |-> data.start_time,
     pointer |-> 0,
     machine_states |-> [m \in data.machines |-> MachineState(m)],
     transports |-> c.transports,
     active_transports |-> EmptyDict,
     applied |-> [i \in 1..Len(data.events) |-> 0]]

\* variant: the machine registry keeps its keys, each reinitialised
ResetKeepsMachines(c) ==
    [current_time |-> data.start_time,
     pointer |-> 0,
     machine_states |-> [m \in DOMAIN c.machine_states |-> MachineState(m)],
     transports |-> EmptyDict,
     active_transports |-> EmptyDict,
     applied |-> [i \in 1..Len(data.events) |-> 0]]

reset(c) ==
    [current_time |-> data.start_time,
     pointer |-> 0,
     machine_states |-> [m \in data.machines |-> MachineState(m)],
     transports |-> EmptyDict,
     active_transports |-> EmptyDict,
     applied |-> [i \in 1..Len(data.events) |-> 0]]

\* variant: the loop stops before the events at the target time
RECURSIVE ApplyLoopStrict(_, _)
ApplyLoopStrict(c, target) ==
    IF c.pointer < Len(data.events) /\ data.events[c.pointer + 1].time_min < target
    THEN ApplyLoopStrict([_apply_event(c, data.events[c.pointer + 1])
                             EXCEPT !.pointer = c.pointer + 1,
                                    !.applied[c.pointer + 1] = @ + 1],
                         target)
    ELSE c

\* the while loop of advance_to: events[pointer] is data.events[pointer + 1] here
RECURSIVE ApplyLoop(_, _)
ApplyLoop(c, target) ==
    IF c.pointer < Len(data.events) /\ data.events[c.pointer + 1].time_min <= target
    THEN ApplyLoop([_apply_event(c, data.events[c.pointer + 1])
                       EXCEPT !.pointer = c.pointer + 1,
                              !.applied[c.pointer + 1] = @ + 1],
                   target)
    ELSE c

\* variant: no clamp at the end of the log
ClampLowerOnly(target) == Max(target, data.start_time)

\* variant: no clamp at the start of the log
ClampUpperOnly(target) == Min(target, data.end_time)

Clamp(target) == Min(Max(target, data.start_time), data.end_time)

\* variant: a target behind the clock restarts the cursor without a reset
AdvanceToRewinding(c, target) ==
    LET t == Clamp(target)
        c0 == IF t < c.current_time THEN [c EXCEPT !.pointer = 0] ELSE c
    IN
    _refresh_active_transports([ApplyLoop(c0, t) EXCEPT !.current_time = t])

\* variant: a target behind the clock resets and replays
AdvanceToUndoing(c, target) ==
    LET t == Clamp(target)
        c0 == IF t < c.current_time THEN reset(c) ELSE c
    IN
    _refresh_active_transports([ApplyLoop(c0, t) EXCEPT !.current_time = t])

\* variant: the snapshot is refreshed before the clock is moved
AdvanceToRefreshFirst(c, target) ==
    LET t == Clamp(target) IN
    [_refresh_active_transports(ApplyLoop(c, t)) EXCEPT !.current_time = t]

advance_to(c, target) ==
    LET t == Clamp(target) IN
    _refresh_active_transports([ApplyLoop(c, t) EXCEPT !.current_time = t])

\* variant: a backward seek does not reset
SeekWithoutReset(c, target) == advance_to(c, target)

seek(c, target) ==
    advance_to(IF target < c.current_time THEN reset(c) ELSE c, target)

advance(c, delta) == advance_to(c, c.current_time + delta)

-----------------------------------------------------------------------------
(* The controller as a state machine *)

Self ==
    [current_time |-> current_time, pointer |-> pointer,
     machine_states |-> machine_states, transports |-> transports,
     active_transports |-> active_transports, applied |-> applied]

Install(c) ==
    /\ current_time' = c.current_time
    /\ pointer' = c.pointer
    /\ machine_states' = c.machine_states
    /\ transports' = c.transports
    /\ active_transports' = c.active_transports
    /\ applied' = c.applied

\* the snapshot a collaborator is given: machine states and active transports
Snapshot(c) == <<c.machine_states, c.active_transports>>

-----------------------------------------------------------------------------
(* Event logs the controller is built on *)

\* events a log is drawn from, in the order a data source supplies them
\* (not sorted by time; SimulationData sorts)
EventPool ==
    << MachineEvent(3, "M1", "TRANSPORT_START", "P1", "", None, Some("M2"), None),
       MachineEvent(0, "M1", "PROC_START", "", "", None, None, None),
       MachineEvent(0, "", "TRANSPORT_START", "P1", "", None, None, None),
       MachineEvent(1, "M2", "TRANSPORT_END", "P1", "", None, None, None),
       MachineEvent(1, "M1", "QUEUE_OUT", "", "", None, None, None),
       MachineEvent(4, "M2", "TRANSPORT_END", "P1", "", None, None, None),
       MachineEvent(2, "M1", "QUEUE_IN", "", "", None, None, Some(-2)),
       MachineEvent(2, "M2", "TRANSPORT_CANCEL", "P1", "", None, None, None),
       MachineEvent(4, "M2", "BREAKDOWN_START", "", "", None, None, Some(2)),
       MachineEvent(5, "M1", "PROC_END", "", "", None, None, Some(-1)),
       MachineEvent(3, "", "TRANSPORT_END", "P1", "E1", None, Some("M2"), None),
       MachineEvent(1, "M2", "TRANSPORT_START", "", "E1", Some("M1"), Some(""), None) >>

RECURSIVE SeqOfIndices(_)
SeqOfIndices(I) ==
    IF I = {} THEN <<>>
    ELSE LET m == CHOOSE x \in I : \A y \in I : x <= y
         IN  <<EventPool[m]>> \o SeqOfIndices(I \ {m})

\* the collections of 1..MaxLogLen pool events, in supply order
EventInputs ==
    {SeqOfIndices(I) : I \in {J \in SUBSET (1..Len(EventPool)) :
                                  Cardinality(J) \in 1..MaxLogLen}}

\* the log of the documented scenario: t = 0, 5, 10, 15 minutes
ScenarioEvents ==
    << MachineEvent(0, "M1", "PROC_START", "", "", None, None, None),
       MachineEvent(50, "M1", "TRANSPORT_START", "P1", "", None, Some("M2"), None),
       MachineEvent(100, "M1", "PROC_END", "", "", None, None, None),
       MachineEvent(150, "M2", "TRANSPORT_END", "P1", "", None, None, None) >>

\* the documented calls advance_to(7), advance_to(15), advance_to(15.2), advance_to(20)
ScenarioCalls == <<70, 150, 152, 200>>

ScenarioTargets == {ScenarioCalls[i] : i \in 1..Len(ScenarioCalls)} \cup {0, 100}

ScenarioDeltas == {-50, 30, 50}

\* targets from below the start to beyond the grace period after the end
Targets == (data.start_time - 1) .. (data.end_time + Grace + 1)

Deltas == (0 - MaxDelta) .. MaxDelta

-----------------------------------------------------------------------------
(* A rendering collaborator (SimulationWindow._sync_scene): it is handed      *)
(* controller.machine_states and controller.active_transports, the dict       *)
(* objects themselves.  live: the objects it holds are still the ones bound   *)
(* to the controller's fields; kept: their content once reset() has bound new *)
(* dicts to the fields; seen: the content when they were handed over.         *)

NoReader == [held |-> FALSE, live |-> FALSE, seen |-> <<>>, kept |-> <<>>]

\* reset() binds fresh dicts to the fields: objects handed out earlier keep
\* their content and are no longer touched by the controller
Rebound(r, c) ==
    IF r.held /\ r.live THEN [r EXCEPT !.live = FALSE, !.kept = Snapshot(c)] ELSE r

\* what the collaborator reads through the objects it holds
ReaderView == IF reader.live THEN Snapshot(Self) ELSE reader.kept

-----------------------------------------------------------------------------
(* History *)

Called(op, arg, rewound) ==
    [op |-> op, arg |-> arg, rewound |-> rewound, ptr |-> pointer]

Off == 0 - 1

\* the number of documented calls made, in order, on a fresh controller
StageAfter(op, target) ==
    IF /\ op = "advance_to"
       /\ stage # Off
       /\ stage < Len(ScenarioCalls)
       /\ target = ScenarioCalls[stage + 1]
    THEN stage + 1
    ELSE Off

-----------------------------------------------------------------------------
(* Initial states and actions *)

Constructed(d) ==
    /\ data = d
    /\ current_time = d.start_time
    /\ pointer = 0
    /\ machine_states = [m \in d.machines |-> MachineState(m)]
    /\ transports = EmptyDict
    /\ active_transports = EmptyDict
    /\ applied = [i \in 1..Len(d.events) |-> 0]
    /\ lastOp = Called("init", 0, TRUE)
    /\ stage = 0
    /\ reader = NoReader

\* no call is under study
NoProbe == [kind |-> "none"]

Init ==
    /\ \E evs \in EventInputs : Constructed(SimulationData(evs))
    /\ probe = NoProbe

InitScenario ==
    /\ Constructed(SimulationData(ScenarioEvents))
    /\ probe = NoProbe

Reset ==
    /\ Install(reset(Self))
    /\ lastOp' = Called("reset", 0, TRUE)
    /\ stage' = 0
    /\ reader' = Rebound(reader, Self)
    /\ UNCHANGED <<data, probe>>

Seek(target) ==
    /\ Install(seek(Self, target))
    /\ lastOp' = Called("seek", target, target < current_time)
    /\ stage' = Off
    /\ reader' = IF target < current_time THEN Rebound(reader, Self) ELSE reader
    /\ UNCHANGED <<data, probe>>

AdvanceTo(target) ==
    /\ Install(advance_to(Self, target))
    /\ lastOp' = Called("advance_to", target, FALSE)
    /\ stage' = StageAfter("advance_to", target)
    /\ UNCHANGED <<data, reader, probe>>

Advance(delta) ==
    /\ Install(advance(Self, delta))
    /\ lastOp' = Called("advance", delta, FALSE)
    /\ stage' = Off
    /\ UNCHANGED <<data, reader, probe>>

\* _sync_scene hands the collaborator the controller's dicts
Read ==
    /\ reader' = [held |-> TRUE, live |-> TRUE, seen |-> Snapshot(Self), kept |-> <<>>]
    /\ UNCHANGED <<data, current_time, pointer, machine_states, transports,
                   active_transports, applied, lastOp, stage, probe>>

Next ==
    \/ Reset
    \/ \E t \in Targets : Seek(t)
    \/ \E t \in Targets : AdvanceTo(t)
    \/ \E d \in Deltas : Advance(d)

Spec == Init /\ [][Next]_vars

NextScenario ==
    \/ Reset
    \/ \E t \in ScenarioTargets : Seek(t)
    \/ \E t \in ScenarioTargets : AdvanceTo(t)
    \/ \E d \in ScenarioDeltas : Advance(d)

SpecScenario == InitScenario /\ [][NextScenario]_vars

NextReader ==
    \/ Reset
    \/ \E t \in ScenarioTargets : Seek(t)
    \/ \E t \in ScenarioTargets : AdvanceTo(t)
    \/ \E d \in ScenarioDeltas : Advance(d)
    \/ Read

SpecReader == InitScenario /\ [][NextReader]_vars

-----------------------------------------------------------------------------
(* Types *)

TypeOK ==
    /\ pointer \in 0..Len(data.events)
    /\ current_time \in Int
    /\ DOMAIN applied = 1..Len(data.events)

-----------------------------------------------------------------------------
(* Replay contract *)

\* a controller freshly constructed on the same log (__init__ calls reset())
Fresh == reset(Self)

\* C1: in every reachable state and for every target T, seek(T) leaves the
\* machine states and the active-transport snapshot that advance_to(T) leaves
\* on a freshly constructed controller
C1_SeekEqualsFreshReplay ==
    \A t \in Targets : Snapshot(seek(Self, t)) = Snapshot(advance_to(Fresh, t))

P1Key == <<"P1", "P1">>

IsZero(f) == f[1] = 0

IsOne(f) == f[1] = f[2]

C2_After7 ==
    stage = 1 =>
        /\ machine_states["M1"].status = "processing"
        /\ DOMAIN active_transports = {P1Key}
        /\ active_transports[P1Key].end_time = None
        /\ IsZero(progress(active_transports[P1Key], current_time))

C2_After15 ==
    stage = 2 =>
        /\ P1Key \in DOMAIN active_transports
        /\ active_transports[P1Key].end_time = Some(150)
        /\ IsOne(progress(active_transports[P1Key], current_time))

C2_After15_2 == stage = 3 => P1Key \in DOMAIN active_transports

\* C2 as stated: on the documented log the calls advance_to(7), advance_to(15),
\* advance_to(15.2), advance_to(20) give: M1 processing and the one transport P1
\* unfinished at progress 0; end_time 15 at progress 1; P1 still present; P1 absent
C2_ScenarioAsStated ==
    /\ C2_After7
    /\ C2_After15
    /\ C2_After15_2
    /\ (stage = 4 => P1Key \notin DOMAIN active_transports)

\* C2 amended: the first three results as stated; after advance_to(20), which
\* is clamped to the end of the log (t = 15), P1 is still present with
\* end_time 15
C2_Scenario ==
    /\ C2_After7
    /\ C2_After15
    /\ C2_After15_2
    /\ (stage = 4 =>
            /\ current_time = 150
            /\ P1Key \in DOMAIN active_transports
            /\ active_transports[P1Key].end_time = Some(150))

C2_Witness == stage = 4 /\ lastOp = Called("advance_to", 200, FALSE)

IsStart(i, k) ==
    data.events[i].event = "TRANSPORT_START" /\ TransportKey(data.events[i]) = k

\* the log positions the last call applied
AppliedByLastCall == ((IF lastOp.rewound THEN 0 ELSE lastOp.ptr) + 1) .. pointer

C4_MonotonicPointer ==
    /\ (~lastOp.rewound => pointer >= lastOp.ptr)
    /\ \A i \in DOMAIN applied : applied[i] <= 1

\* an advance_to that started behind the pointer's final place and one that
\* found nothing left to apply
C4_Witness ==
    /\ lastOp.op = "advance_to"
    /\ lastOp.ptr > 0
    /\ pointer > lastOp.ptr
    /\ pointer = Len(data.events)

\* C5: every machine's queue is >= 0
C5_QueueFloor ==
    \A m \in DOMAIN machine_states : machine_states[m].queue >= 0

\* a QUEUE_OUT was applied to a machine with an empty queue and an event with
\* a negative queue_length was applied
C5_Witness ==
    /\ pointer >= 2
    /\ data.events[1].event = "QUEUE_OUT"
    /\ data.events[1].queue_length = None
    /\ \E i \in 1..pointer :
          /\ data.events[i].queue_length # None
          /\ data.events[i].queue_length[1] < 0

\* C6: a seek step with target < current_time ends in the state reset()
\* followed by advance_to(target) produces, and a seek step with
\* target >= current_time in the state advance_to(target) produces
C6_SeekIsReplay ==
    [][lastOp'.op = "seek" =>
         Self' = IF lastOp'.arg < current_time
                 THEN advance_to(reset(Self), lastOp'.arg)
                 ELSE advance_to(Self, lastOp'.arg)]_vars

\* a backward seek from a state with events applied, ending behind them
C6_Witness ==
    /\ lastOp.op = "seek"
    /\ lastOp.rewound
    /\ lastOp.ptr >= 2
    /\ pointer > 0
    /\ pointer < lastOp.ptr

\* C7: after reset() current_time = start_time, pointer = 0, both the transport
\* registry and the snapshot are empty, and the machine registry holds exactly
\* the non-empty machine ids of the log, each at queue 0, idle, no last_event
C7_Reset ==
    lastOp.op = "reset" =>
        /\ current_time = data.events[1].time_min
        /\ pointer = 0
        /\ transports = <<>>
        /\ active_transports = <<>>
        /\ DOMAIN machine_states =
              {data.events[i].machine : i \in 1..Len(data.events)} \ {""}
        /\ \A m \in DOMAIN machine_states :
              machine_states[m] =
                  [machine |-> m, queue |-> 0, status |-> "idle", last_event |-> <<>>]

\* reset() called when a machine had been created lazily (empty id) and a
\* transport had been started
C7_Witness ==
    /\ lastOp.op = "reset"
    /\ \E i \in 1..lastOp.ptr : data.events[i].machine = ""
    /\ \E i \in 1..lastOp.ptr : data.events[i].event = "TRANSPORT_START"
    /\ \E i \in 1..lastOp.ptr : data.events[i].event = "QUEUE_IN"

\* C8: start_time <= current_time <= end_time in every state, and after
\* advance_to(target) current_time is target clamped into that range
C8_Clamp ==
    /\ data.start_time <= current_time
    /\ current_time <= data.end_time
    /\ lastOp.op = "advance_to" =>
          current_time = IF lastOp.arg < data.start_time THEN data.start_time
                         ELSE IF lastOp.arg > data.end_time THEN data.end_time
                         ELSE lastOp.arg

\* advance_to with a target beyond the end of a log that spans some time
C8_Witness ==
    /\ lastOp.op = "advance_to"
    /\ lastOp.arg > data.end_time
    /\ data.start_time > 0
    /\ data.start_time < data.end_time

\* advance_to with a target before the start of the log
C8_WitnessBelow ==
    /\ lastOp.op = "advance_to"
    /\ lastOp.arg < data.start_time
    /\ lastOp.ptr > 0

\* C9: repeating the advance_to(T) or seek(T) just made changes nothing
C9_Idempotent ==
    /\ lastOp.op = "advance_to" => advance_to(Self, lastOp.arg) = Self
    /\ lastOp.op = "seek" => seek(Self, lastOp.arg) = Self

\* an advance_to that applied events and refreshed a snapshot holding a
\* finished transport
C9_Witness ==
    /\ lastOp.op = "advance_to"
    /\ pointer > lastOp.ptr
    /\ \E k \in DOMAIN active_transports : active_transports[k].end_time # None

\* C10: what a collaborator reads through the snapshot it was handed stays what
\* it was when handed over, whatever the controller does afterwards
C10_ReaderSnapshotStable == reader.held => ReaderView = reader.seen

-----------------------------------------------------------------------------
(* Determinism *)

\* the fields of a second controller just constructed on the same log
Built ==
    [current_time |-> data.start_time,
     pointer |-> 0,
     machine_states |-> [m \in data.machines |-> MachineState(m)],
     transports |-> EmptyDict,
     active_transports |-> EmptyDict,
     applied |-> [i \in 1..Len(data.events) |-> 0]]

\* C11: for every target T, reset() then advance_to(T) on this controller,
\* whatever it did before, and on a second controller built from the same log
\* end with the same machine states and the same active-transport snapshot;
\* so does every backward seek, which runs reset() then advance_to(T)
C11_Determinism ==
    /\ \A t \in Targets :
          Snapshot(advance_to(reset(Self), t)) = Snapshot(advance_to(reset(Built), t))
    /\ (lastOp.op = "seek" /\ lastOp.rewound) =>
          Snapshot(Self) = Snapshot(advance_to(reset(Built), lastOp.arg))

\* reset() then advance_to(T) has run on a controller that had created a
\* machine lazily and tracked transports, and left a transport in the snapshot
C11_Witness ==
    /\ lastOp.op = "seek"
    /\ lastOp.rewound
    /\ lastOp.ptr >= 3
    /\ \E i \in 1..lastOp.ptr : data.events[i].machine = ""
    /\ pointer >= 1
    /\ pointer < lastOp.ptr
    /\ DOMAIN active_transports # {}

-----------------------------------------------------------------------------
(* Transport.progress, called on its own *)

\* largest transport time drawn (ticks)
MaxTime == 3

\* the controller at rest while a single call is studied
AtRest == Constructed(SimulationData(ScenarioEvents))

ProgressInputs ==
    [kind : {"progress"},
     start_time : 0..MaxTime,
     end_time : {None} \cup {Some(e) : e \in 0..MaxTime},
     clock : (0 - 1)..(MaxTime + 1),
     done : {FALSE},
     result : {<<0, 1>>}]

InitProgress ==
    /\ AtRest
    /\ probe \in ProgressInputs

\* transport.progress(clock) on a transport with the drawn times
CallProgress ==
    /\ probe.kind = "progress"
    /\ ~probe.done
    /\ probe' = [probe EXCEPT
          !.done = TRUE,
          !.result = progress([Transport("P1", "", None, None, probe.start_time)
                                  EXCEPT !.end_time = probe.end_time],
                              probe.clock)]
    /\ UNCHANGED ctlVars

NextProgress == CallProgress

SpecProgress == InitProgress /\ [][NextProgress]_vars

\* C12: progress(clock) is 0 when end_time is unset, 1 when
\* end_time - start_time <= 0, otherwise (clock - start_time)/(end_time -
\* start_time) clamped to [0, 1]; the result always lies in [0, 1]
C12_Progress ==
    (probe.kind = "progress" /\ probe.done) =>
        LET r == probe.result
            elapsed == probe.clock - probe.start_time
        IN  /\ r[2] > 0
            /\ 0 <= r[1]
            /\ r[1] <= r[2]
            /\ probe.end_time = None => r[1] = 0
            /\ probe.end_time # None =>
                  LET duration == probe.end_time[1] - probe.start_time IN
                  /\ duration <= 0 => r[1] = r[2]
                  /\ (duration > 0 /\ elapsed <= 0) => r[1] = 0
                  /\ (duration > 0 /\ elapsed >= duration) => r[1] = r[2]
                  /\ (duration > 0 /\ elapsed > 0 /\ elapsed < duration) =>
                        r[1] * duration = r[2] * elapsed

\* the quotient exceeded 1 and was clamped
C12_Witness ==
    /\ probe.kind = "progress"
    /\ probe.done
    /\ probe.end_time # None
    /\ probe.end_time[1] - probe.start_time > 0
    /\ probe.clock > probe.end_time[1]
    /\ probe.result[1] = probe.result[2]

\* the quotient lay strictly inside (0, 1)
C12_WitnessInside ==
    /\ probe.kind = "progress"
    /\ probe.done
    /\ probe.end_time # None
    /\ probe.clock > probe.start_time
    /\ probe.clock < probe.end_time[1]
    /\ probe.result[1] > 0
    /\ probe.result[1] < probe.result[2]

-----------------------------------------------------------------------------
(* Building the log and the controller: SimulationWindow.load_path *)

\* longest collection of events handed to SimulationData
MaxBuildLen == 3

BuildEvents ==
    {MachineEvent(t, m, "PROC_START", "", "", None, None, None) :
        t \in 0..(MaxBuildLen - 1), m \in {"M1", "M2"}}

\* the parsed rows of a file, in file order
BuildInputs == UNION {[1..n -> BuildEvents] : n \in 0..MaxBuildLen}

\* the window before any file is loaded: it has no controller
NoController ==
    /\ data = None
    /\ current_time = 0
    /\ pointer = 0
    /\ machine_states = EmptyDict
    /\ transports = EmptyDict
    /\ active_transports = EmptyDict
    /\ applied = <<>>
    /\ lastOp = [op |-> "none", arg |-> 0, rewound |-> FALSE, ptr |-> 0]
    /\ stage = Off
    /\ reader = NoReader

\* a file about to be loaded
BuildProbes ==
    [kind : {"load"}, events : BuildInputs, done : {FALSE},
     result : {[ok |-> FALSE, error |-> ""]}]

\* the window has no controller yet, or one from an earlier load
InitBuild ==
    /\ NoController \/ AtRest
    /\ probe \in BuildProbes

\* load_data: the window's controller becomes a new one over the log d
LoadData(d) ==
    /\ data' = d
    /\ Install([current_time |-> d.start_time,
                pointer |-> 0,
                machine_states |-> [m \in d.machines |-> MachineState(m)],
                transports |-> EmptyDict,
                active_transports |-> EmptyDict,
                applied |-> [i \in 1..Len(d.events) |-> 0]])
    /\ lastOp' = [op |-> "init", arg |-> 0, rewound |-> TRUE, ptr |-> 0]
    /\ stage' = 0
    /\ reader' = NoReader

\* load_path: build the log; on an error report it and keep what the window
\* had, otherwise load_data replaces the controller by one over the new log
LoadPath ==
    LET r == NewSimulationData(probe.events) IN
    /\ probe.kind = "load"
    /\ ~probe.done
    /\ probe' = [probe EXCEPT !.done = TRUE, !.result = r]
    /\ IF r.ok THEN LoadData(r.data) ELSE UNCHANGED ctlVars

NextBuild == LoadPath

SpecBuild == InitBuild /\ [][NextBuild]_vars

Times(s) == {s[i].time_min : i \in 1..Len(s)}

\* the events of s with time t, in the order they have in s
AtTime(s, t) == SelectSeq(s, LAMBDA e : e.time_min = t)

\* C13: the log built from any collection of events is a permutation of it
\* sorted ascending by time, equal-time events keeping the order in which they
\* were supplied; start_time is the first sorted event's time, end_time the last's
C13_StableSort ==
    (probe.kind = "load" /\ probe.done /\ probe.result.ok) =>
        LET in == probe.events
            log == probe.result.data
            out == log.events
        IN  /\ Len(out) = Len(in)
            /\ \A i \in 1..(Len(out) - 1) : out[i].time_min <= out[i + 1].time_min
            /\ \A t \in Times(in) \cup Times(out) : AtTime(out, t) = AtTime(in, t)
            /\ log.start_time = out[1].time_min
            /\ log.end_time = out[Len(out)].time_min

\* a log was built from events supplied out of time order, two of them
\* different and at the same time
C13_Witness ==
    /\ probe.kind = "load"
    /\ probe.done
    /\ probe.result.ok
    /\ Len(probe.events) = 3
    /\ \E i, j \in 1..3 : i < j /\ probe.events[i].time_min > probe.events[j].time_min
    /\ \E i, j \in 1..3 :
          /\ i < j
          /\ probe.events[i].time_min = probe.events[j].time_min
          /\ probe.events[i] # probe.events[j]
    /\ data = probe.result.data

\* C14: building the log from zero events fails with an error and yields no
\* log object, so a controller exists only over a log with at least one event,
\* whose first and last events give start_time and end_time
C14_EmptyLogRejected ==
    /\ (probe.kind = "load" /\ probe.done /\ probe.events = <<>>) =>
          /\ ~probe.result.ok
          /\ DOMAIN probe.result = {"ok", "error"}
    /\ data # None =>
          /\ Len(data.events) >= 1
          /\ data.start_time = data.events[1].time_min
          /\ data.end_time = data.events[Len(data.events)].time_min

\* loading zero events failed and left the window without a controller
C14_Witness ==
    /\ probe.kind = "load"
    /\ probe.done
    /\ probe.events = <<>>
    /\ ~probe.result.ok
    /\ probe.result.error = "ValueError"
    /\ data = None

\* loading zero events failed and left the controller loaded before in place
C14_WitnessKept ==
    /\ probe.kind = "load"
    /\ probe.done
    /\ probe.events = <<>>
    /\ ~probe.result.ok
    /\ data # None
    /\ lastOp.op = "init"

-----------------------------------------------------------------------------
(* The backend's range query: SimulationData.iter_events *)

QueryEvents ==
    {MachineEvent(t, "M1", k, "", "", None, None, None) :
        t \in {1, 2}, k \in {"PROC_START", "PROC_END"}}

\* the rows of the events file, in file order
QueryRows == UNION {[1..n -> QueryEvents] : n \in 0..MaxBuildLen}

Injections(n) == {f \in [1..n -> 1..n] : \A i, j \in 1..n : f[i] = f[j] => i = j}

\* the orders in which the rows of s can be listed
Arrangements(s) == {[i \in 1..Len(s) |-> s[f[i]]] : f \in Injections(Len(s))}

Ascending(s) == \A i \in 1..(Len(s) - 1) : s[i].time_min <= s[i + 1].time_min

\* variant: the upper end of the range is included
IterEventsInclusive(rows, start, end) ==
    IF end <= start THEN {<<>>}
    ELSE LET kept == SelectSeq(SelectSeq(rows, LAMBDA e : e.time_min >= start),
                               LAMBDA e : e.time_min <= end)
         IN  {out \in Arrangements(kept) : Ascending(out)}

\* iter_events: the row sequences the call can yield. The frame is filtered
\* twice and sorted on time_min; the sort is not asked to keep the order of
\* rows with equal times, so each ascending order of the kept rows is possible
iter_events(rows, start, end) ==
    IF end <= start THEN {<<>>}
    ELSE LET kept == SelectSeq(SelectSeq(rows, LAMBDA e : e.time_min >= start),
                               LAMBDA e : e.time_min < end)
         IN  {out \in Arrangements(kept) : Ascending(out)}

QueryInputs ==
    [kind : {"query"},
     rows : QueryRows,
     start : 0..MaxTime,
     end : 0..MaxTime,
     done : {FALSE},
     result : {<<>>}]

InitQuery ==
    /\ AtRest
    /\ probe \in QueryInputs

\* list(data.iter_events(start, end)) beside a controller at rest
CallIterEvents ==
    /\ probe.kind = "query"
    /\ ~probe.done
    /\ \E out \in iter_events(probe.rows, probe.start, probe.end) :
          probe' = [probe EXCEPT !.done = TRUE, !.result = out]
    /\ UNCHANGED ctlVars

NextQuery == CallIterEvents

SpecQuery == InitQuery /\ [][NextQuery]_vars

\* how many times e occurs in s
Count(s, e) == Cardinality({i \in 1..Len(s) : s[i] = e})

\* C15: iter_events(start, end) returns exactly the log events with
\* start <= time < end, in ascending time order, nothing when end <= start,
\* and leaves current_time, pointer and the registries as they were
C15_RangeQuery ==
    /\ AtRest
    /\ (probe.kind = "query" /\ probe.done) =>
          /\ \A e \in QueryEvents :
                Count(probe.result, e) =
                    IF probe.start <= e.time_min /\ e.time_min < probe.end
                    THEN Count(probe.rows, e)
                    ELSE 0
          /\ \A i, j \in 1..Len(probe.result) :
                i < j => probe.result[i].time_min <= probe.result[j].time_min
          /\ probe.end <= probe.start => probe.result = <<>>

\* a query over unsorted rows returned some, left out one before start and
\* one at end
C15_Witness ==
    /\ probe.kind = "query"
    /\ probe.done
    /\ probe.start < probe.end
    /\ Len(probe.result) >= 1
    /\ probe.result # probe.rows
    /\ \E i \in 1..Len(probe.rows) : probe.rows[i].time_min = probe.end
    /\ \E i \in 1..Len(probe.rows) : probe.rows[i].time_min = probe.start
    /\ \E i, j \in 1..Len(probe.rows) :
          i < j /\ probe.rows[i].time_min > probe.rows[j].time_min

\* a query with end <= start over rows inside the reversed range
C15_WitnessEmptyRange ==
    /\ probe.kind = "query"
    /\ probe.done
    /\ probe.end <= probe.start
    /\ probe.rows # <<>>
    /\ probe.result = <<>>

-----------------------------------------------------------------------------
(* One event applied to a machine: the queue *)

\* largest queue length drawn
MaxQueue == 2

\* the fields of a controller just built over a log that names these machines
FreshOver(machines) ==
    [current_time |-> 0,
     pointer |-> 0,
     machine_states |-> [m \in machines |-> MachineState(m)],
     transports |-> EmptyDict,
     active_transports |-> EmptyDict,
     applied |-> <<>>]

\* kinds handled by no transport branch
MachineKinds ==
    {"QUEUE_IN", "QUEUE_OUT", "PROC_START", "PROC_END", "PROC_COMPLETE",
     "BREAKDOWN_START", "BREAKDOWN_END", "BREAKDOWN_CLEAR", "MAINTENANCE"}

\* controllers an event can meet: M1 with each status and queue length
QueuePriors ==
    {FreshOver({"M1", "M2"})} \cup
    {_apply_event(FreshOver({"M1", "M2"}),
                  MachineEvent(0, "M1", k, "", "", None, None, Some(q))) :
        k \in {"PROC_START", "BREAKDOWN_START", "PROC_END"}, q \in 0..MaxQueue}

\* the event applied: on a machine with history, a known one without, or one
\* the log did not name; with or without a queue_length
QueueEvents ==
    {MachineEvent(1, m, k, "P1", "", None, None, q) :
        m \in {"M1", "M2", "M3"},
        k \in MachineKinds \cup {"TRANSPORT_START"},
        q \in {None} \cup {Some(n) : n \in (0 - 1)..MaxQueue}}

QueueInputs ==
    [kind : {"queue"}, c : QueuePriors, ev : QueueEvents, done : {FALSE},
     out : {FreshOver({})}]

InitQueue ==
    /\ AtRest
    /\ probe \in QueueInputs

\* one pass of advance_to's loop body on the drawn controller
ApplyOne ==
    /\ probe.kind = "queue"
    /\ ~probe.done
    /\ probe' = [probe EXCEPT !.done = TRUE, !.out = _apply_event(probe.c, probe.ev)]
    /\ UNCHANGED ctlVars

NextQueue == ApplyOne

SpecQueue == InitQueue /\ [][NextQueue]_vars

\* the queue of machine m in controller c; a machine not yet seen has none
\* and is created with 0
QueueOf(c, m) ==
    IF m \in DOMAIN c.machine_states THEN c.machine_states[m].queue ELSE 0

\* C16: with a queue_length q, QUEUE_IN leaves max(0, q) + 1, QUEUE_OUT leaves
\* max(0, max(0, q) - 1) and any other kind leaves max(0, q), whatever the
\* queue was before; without a queue_length a kind other than QUEUE_IN and
\* QUEUE_OUT leaves the queue unchanged
C16_OverrideThenUnit ==
    (probe.kind = "queue" /\ probe.done) =>
        LET ev == probe.ev
            before == QueueOf(probe.c, ev.machine)
            after == probe.out.machine_states[ev.machine].queue
            unit == ev.event \in {"QUEUE_IN", "QUEUE_OUT"}
        IN  /\ (ev.queue_length # None /\ ev.event = "QUEUE_IN") =>
                  after = Max(0, ev.queue_length[1]) + 1
            /\ (ev.queue_length # None /\ ev.event = "QUEUE_OUT") =>
                  after = Max(0, Max(0, ev.queue_length[1]) - 1)
            /\ (ev.queue_length # None /\ ~unit) =>
                  after = Max(0, ev.queue_length[1])
            /\ (ev.queue_length = None /\ ~unit) => after = before

\* a QUEUE_IN carrying a negative queue_length met a queue of 2 and left 1
C16_Witness ==
    /\ probe.kind = "queue"
    /\ probe.done
    /\ probe.ev.event = "QUEUE_IN"
    /\ probe.ev.queue_length = Some(0 - 1)
    /\ QueueOf(probe.c, probe.ev.machine) = 2
    /\ probe.out.machine_states[probe.ev.machine].queue = 1

\* a QUEUE_OUT carrying queue_length 0 met a queue of 2 and left 0
C16_WitnessOut ==
    /\ probe.kind = "queue"
    /\ probe.done
    /\ probe.ev.event = "QUEUE_OUT"
    /\ probe.ev.queue_length = Some(0)
    /\ QueueOf(probe.c, probe.ev.machine) = 2
    /\ probe.out.machine_states[probe.ev.machine].queue = 0

-----------------------------------------------------------------------------
(* Events applied one after another: status and last_event *)

\* most events applied between two resets
MaxStream == 3

\* events of every status-setting kind, a queue, a transport and an unknown
\* kind on M1, and two events on a machine the log's machine list lacks
StreamEvents ==
    {MachineEvent(0, "M1", k, "P1", "", None, None, None) :
        k \in (MachineKinds \ {"QUEUE_OUT"}) \cup {"TRANSPORT_START"}} \cup
    {MachineEvent(0, "", k, "", "", None, None, None) :
        k \in {"BREAKDOWN_START", "QUEUE_IN"}}

InitStream ==
    /\ AtRest
    /\ probe = [kind |-> "stream", c |-> FreshOver({"M1"}), trace |-> <<>>]

\* one pass of advance_to's loop body; trace keeps what was applied
StreamApply(ev) ==
    /\ probe.kind = "stream"
    /\ Len(probe.trace) < MaxStream
    /\ probe' = [probe EXCEPT !.c = _apply_event(probe.c, ev),
                              !.trace = Append(probe.trace, ev)]
    /\ UNCHANGED ctlVars

\* reset(): the machine registry is rebuilt from the log's machine list
StreamReset ==
    /\ probe.kind = "stream"
    /\ probe.trace # <<>>
    /\ probe' = [probe EXCEPT !.c = FreshOver({"M1"}), !.trace = <<>>]
    /\ UNCHANGED ctlVars

NextStream ==
    \/ \E ev \in StreamEvents : StreamApply(ev)
    \/ StreamReset

SpecStream == InitStream /\ [][NextStream]_vars

StatusOfKind(k) ==
    CASE k = "PROC_START" -> "processing"
      [] k = "PROC_END" -> "idle"
      [] k = "PROC_COMPLETE" -> "idle"
      [] k = "BREAKDOWN_END" -> "idle"
      [] k = "BREAKDOWN_CLEAR" -> "idle"
      [] k = "BREAKDOWN_START" -> "breakdown"

StatusSetting ==
    {"PROC_START", "PROC_END", "PROC_COMPLETE", "BREAKDOWN_END",
     "BREAKDOWN_CLEAR", "BREAKDOWN_START"}

Last(I) == CHOOSE i \in I : \A j \in I : j <= i

\* C17: every machine's status is idle, processing or breakdown and is the
\* one implied by the last status-setting event applied for it since the last
\* reset, idle if there was none; other kinds leave it as it was; last_event
\* is the kind of the last event applied for the machine
C17_StatusFollowsLastEvent ==
    probe.kind = "stream" =>
        \A m \in DOMAIN probe.c.machine_states :
            LET st == probe.c.machine_states[m]
                mine == {i \in 1..Len(probe.trace) : probe.trace[i].machine = m}
                setting == {i \in mine : probe.trace[i].event \in StatusSetting}
            IN  /\ st.status \in {"idle", "processing", "breakdown"}
                /\ st.status = IF setting = {} THEN "idle"
                               ELSE StatusOfKind(probe.trace[Last(setting)].event)
                /\ st.last_event = IF mine = {} THEN None
                                   ELSE Some(probe.trace[Last(mine)].event)

\* a breakdown was cleared and a transport event followed: idle, and
\* last_event is the transport's kind
C17_Witness ==
    /\ probe.kind = "stream"
    /\ Len(probe.trace) = 3
    /\ probe.trace[1].event = "BREAKDOWN_START"
    /\ probe.trace[2].event = "BREAKDOWN_CLEAR"
    /\ probe.trace[3].event = "TRANSPORT_START"
    /\ \A i \in 1..3 : probe.trace[i].machine = "M1"
    /\ probe.c.machine_states["M1"].status = "idle"
    /\ probe.c.machine_states["M1"].last_event = Some("TRANSPORT_START")

\* an unknown kind after a breakdown started left the machine in breakdown
C17_WitnessUnknown ==
    /\ probe.kind = "stream"
    /\ Len(probe.trace) = 2
    /\ probe.trace[1].event = "BREAKDOWN_START"
    /\ probe.trace[2].event = "MAINTENANCE"
    /\ probe.trace[1].machine = probe.trace[2].machine
    /\ probe.c.machine_states[probe.trace[1].machine].status = "breakdown"

-----------------------------------------------------------------------------
(* One transport event applied to the registry *)

RECURSIVE ApplyAll(_, _)
ApplyAll(c, evs) ==
    IF evs = <<>> THEN c
    ELSE ApplyAll(_apply_event(c, Head(evs)), Tail(evs))

\* earlier events of the product P1 (key <<"P1", "P1">>): a start with the
\* destination absent, empty or given, and an end that may name a machine
PriorStarts ==
    {MachineEvent(0, "M1", "TRANSPORT_START", "P1", "", None, to, None) :
        to \in {None, Some(""), Some("M2")}}

PriorEnds ==
    {MachineEvent(1, m, "TRANSPORT_END", "P1", "", None, None, None) :
        m \in {"", "M2"}}

\* an earlier start of another transport (key <<"P2", "E2">>)
OtherStart ==
    MachineEvent(0, "M1", "TRANSPORT_START", "P2", "E2", Some("M2"), Some("M1"), None)

PriorLogs ==
    LET own == {<<>>} \cup {<<s>> : s \in PriorStarts}
                      \cup {<<s, e>> : s \in PriorStarts, e \in PriorEnds}
    IN  own \cup {<<OtherStart>> \o l : l \in own}

\* registries a transport event can meet
TransportPriors == {ApplyAll(FreshOver({"M1", "M2"}), l) : l \in PriorLogs}

TransportEvents ==
    {MachineEvent(2, m, k, p, e, f, to, None) :
        m \in {"", "M3"},
        k \in TransportKinds,
        p \in {"", "P1"},
        e \in {"", "E1", "P1"},
        f \in {None, Some(""), Some("M1")},
        to \in {None, Some(""), Some("M4")}}

\* the clock at the end of the call: the event's time, or past its grace
TransportInputs ==
    [kind : {"transport"}, c : TransportPriors, ev : TransportEvents,
     now : {2, 3 + Grace}, done : {FALSE},
     out : {FreshOver({})}, fin : {FreshOver({})}]

InitTransport ==
    /\ AtRest
    /\ probe \in TransportInputs

\* the last pass of advance_to's loop and the refresh that ends the call
ApplyLast ==
    /\ probe.kind = "transport"
    /\ ~probe.done
    /\ LET out == _apply_event(probe.c, probe.ev) IN
       probe' = [probe EXCEPT
          !.done = TRUE,
          !.out = out,
          !.fin = _refresh_active_transports([out EXCEPT !.current_time = probe.now])]
    /\ UNCHANGED ctlVars

NextTransport == ApplyLast

SpecTransport == InitTransport /\ [][NextTransport]_vars

\* the registry key of the probed event
ProbeKey ==
    LET ev == probe.ev IN
    << IF ev.product_id # "" THEN ev.product_id ELSE ev.entity_id,
       IF ev.entity_id # "" THEN ev.entity_id ELSE ev.product_id >>

\* every registry entry but the probed key's is as it was
OthersUnchanged ==
    /\ DOMAIN probe.out.transports \ {ProbeKey} = DOMAIN probe.c.transports \ {ProbeKey}
    /\ \A k \in DOMAIN probe.c.transports \ {ProbeKey} :
          probe.out.transports[k] = probe.c.transports[k]

Probed(k) == probe.kind = "transport" /\ probe.done /\ probe.ev.event = k

\* C18: a TRANSPORT_START leaves for its key a transport with from_machine =
\* event.from_machine or event.machine, to_machine = event.to_machine,
\* start_time = the event's time and end_time unset, whether or not the key
\* had an entry (in flight or ended), and leaves every other entry unchanged
C18_StartReplaces ==
    Probed("TRANSPORT_START") =>
        LET ev == probe.ev IN
        /\ ProbeKey \in DOMAIN probe.out.transports
        /\ probe.out.transports[ProbeKey] =
              [product_id |-> ev.product_id,
               entity_id |-> ev.entity_id,
               from_machine |-> IF ev.from_machine \in {None, Some("")}
                                THEN Some(ev.machine)
                                ELSE ev.from_machine,
               to_machine |-> ev.to_machine,
               start_time |-> ev.time_min,
               end_time |-> None]
        /\ OthersUnchanged

\* a start replaced an ended transport of its key beside another entry
C18_Witness ==
    /\ Probed("TRANSPORT_START")
    /\ ProbeKey \in DOMAIN probe.c.transports
    /\ probe.c.transports[ProbeKey].end_time # None
    /\ probe.c.transports[ProbeKey].to_machine = Some("M2")
    /\ DOMAIN probe.c.transports # {ProbeKey}
    /\ probe.out.transports[ProbeKey].end_time = None
    /\ probe.out.transports[ProbeKey].start_time = 2
    /\ probe.out.transports[ProbeKey].to_machine = None

\* to_machine holds no machine name: it is absent or empty
Unset(o) == o = None \/ o = Some("")

\* C19: a TRANSPORT_END whose key has an entry sets the entry's end_time to
\* the event's time and its to_machine to (event.machine or event.to_machine)
\* only if to_machine was unset, leaving a set to_machine, from_machine and
\* start_time unchanged; with no entry for the key the registry is unchanged
C19_EndBackfills ==
    Probed("TRANSPORT_END") =>
        LET ev == probe.ev IN
        IF ProbeKey \in DOMAIN probe.c.transports
        THEN LET old == probe.c.transports[ProbeKey]
                 new == probe.out.transports[ProbeKey]
             IN  /\ new.end_time = Some(ev.time_min)
                 /\ new.to_machine =
                       IF Unset(old.to_machine)
                       THEN (IF ev.machine # "" THEN Some(ev.machine) ELSE ev.to_machine)
                       ELSE old.to_machine
                 /\ new.from_machine = old.from_machine
                 /\ new.start_time = old.start_time
                 /\ OthersUnchanged
        ELSE probe.out.transports = probe.c.transports

\* an end naming a machine met a transport whose destination was set and kept it
C19_Witness ==
    /\ Probed("TRANSPORT_END")
    /\ ProbeKey \in DOMAIN probe.c.transports
    /\ probe.c.transports[ProbeKey].to_machine = Some("M2")
    /\ probe.ev.machine = "M3"
    /\ probe.out.transports[ProbeKey].to_machine = Some("M2")
    /\ probe.out.transports[ProbeKey].end_time = Some(2)

\* an end naming a machine met a transport without destination and filled it in
C19_WitnessBackfill ==
    /\ Probed("TRANSPORT_END")
    /\ ProbeKey \in DOMAIN probe.c.transports
    /\ probe.c.transports[ProbeKey].to_machine = None
    /\ probe.ev.machine = "M3"
    /\ probe.out.transports[ProbeKey].to_machine = Some("M3")

\* an end met no transport of its key
C19_WitnessDropped ==
    /\ Probed("TRANSPORT_END")
    /\ ProbeKey \notin DOMAIN probe.c.transports
    /\ probe.c.transports # EmptyDict
    /\ probe.out.transports = probe.c.transports

\* C20: after a TRANSPORT_CANCEL the registry has no entry for the event's
\* key and every other entry is unchanged; with no entry before, the registry
\* is unchanged; the cancelled transport is not in the snapshot made at the
\* end of the call
C20_CancelRemoves ==
    Probed("TRANSPORT_CANCEL") =>
        /\ ProbeKey \notin DOMAIN probe.out.transports
        /\ OthersUnchanged
        /\ ProbeKey \notin DOMAIN probe.c.transports =>
              probe.out.transports = probe.c.transports
        /\ ProbeKey \notin DOMAIN probe.fin.active_transports
        /\ ProbeKey \notin DOMAIN probe.fin.transports

\* a transport in flight was cancelled beside another one, which stays in
\* the snapshot
C20_Witness ==
    /\ Probed("TRANSPORT_CANCEL")
    /\ ProbeKey \in DOMAIN probe.c.transports
    /\ probe.c.transports[ProbeKey].end_time = None
    /\ DOMAIN probe.out.transports = DOMAIN probe.c.transports \ {ProbeKey}
    /\ DOMAIN probe.fin.active_transports = DOMAIN probe.c.transports \ {ProbeKey}
    /\ probe.fin.active_transports # EmptyDict

\* a cancel met no transport of its key
C20_WitnessAbsent ==
    /\ Probed("TRANSPORT_CANCEL")
    /\ ProbeKey \notin DOMAIN probe.c.transports
    /\ probe.c.transports # EmptyDict
    /\ probe.out.transports = probe.c.transports

-----------------------------------------------------------------------------
(* The snapshot's destinations *)

\* C21: every snapshot transport has a set, non-empty to_machine; a tracked
\* transport whose to_machine is unset shows in the snapshot with to_machine
\* = its from_machine, and its registry entry keeps to_machine unset
C21_SnapshotDestination ==
    \A k \in DOMAIN active_transports :
        /\ Truthy(active_transports[k].to_machine)
        /\ (k \in DOMAIN transports /\ transports[k].to_machine = None) =>
              active_transports[k].to_machine = transports[k].from_machine

-----------------------------------------------------------------------------
(* Matching of transport events by key *)

\* the pair two identifiers fold to
Folded(p, e) == <<IF p # "" THEN p ELSE e, IF e # "" THEN e ELSE p>>

\* the probed event and the start that created entry k fold to the same pair
SameMovementKey(k) ==
    Folded(probe.c.transports[k].product_id, probe.c.transports[k].entity_id)
        = Folded(probe.ev.product_id, probe.ev.entity_id)

\* entry k is gone or differs after the probed event
Touched(k) ==
    \/ k \notin DOMAIN probe.out.transports
    \/ probe.out.transports[k] # probe.c.transports[k]

\* C22: START, END and CANCEL are matched by the folded key alone: an END or
\* CANCEL changes a tracked transport iff its identifiers fold to the pair of
\* the START that created it (an END with product_id P, entity_id E leaves a
\* transport started with product_id P alone without end_time), and
\* a START whose identifiers fold to a tracked pair shares that entry
C22_MatchedByKey ==
    /\ (Probed("TRANSPORT_END") \/ Probed("TRANSPORT_CANCEL")) =>
          \A k \in DOMAIN probe.c.transports : Touched(k) <=> SameMovementKey(k)
    /\ Probed("TRANSPORT_START") =>
          \A k \in DOMAIN probe.c.transports :
              SameMovementKey(k) =>
                  /\ DOMAIN probe.out.transports = DOMAIN probe.c.transports
                  /\ probe.out.transports[k].start_time = probe.ev.time_min
                  /\ probe.out.transports[k].entity_id = probe.ev.entity_id

\* an END with product_id P1 and entity_id E1 met the transport started with
\* product_id P1 alone and left it in flight
C22_Witness ==
    /\ Probed("TRANSPORT_END")
    /\ probe.ev.product_id = "P1"
    /\ probe.ev.entity_id = "E1"
    /\ <<"P1", "P1">> \in DOMAIN probe.c.transports
    /\ probe.c.transports[<<"P1", "P1">>].end_time = None
    /\ probe.out.transports[<<"P1", "P1">>].end_time = None
    /\ probe.fin.active_transports[<<"P1", "P1">>].end_time = None

\* an END naming only entity_id P1 ended the transport started with
\* product_id P1 alone
C22_WitnessCollision ==
    /\ Probed("TRANSPORT_END")
    /\ probe.ev.product_id = ""
    /\ probe.ev.entity_id = "P1"
    /\ <<"P1", "P1">> \in DOMAIN probe.c.transports
    /\ probe.c.transports[<<"P1", "P1">>].entity_id = ""
    /\ probe.c.transports[<<"P1", "P1">>].end_time = None
    /\ probe.out.transports[<<"P1", "P1">>].end_time = Some(2)

\* a START naming only entity_id P1 took over the entry of the transport
\* started with product_id P1 alone
C22_WitnessShared ==
    /\ Probed("TRANSPORT_START")
    /\ probe.ev.product_id = ""
    /\ probe.ev.entity_id = "P1"
    /\ <<"P1", "P1">> \in DOMAIN probe.c.transports
    /\ probe.c.transports[<<"P1", "P1">>].product_id = "P1"
    /\ probe.out.transports[<<"P1", "P1">>].product_id = ""
    /\ DOMAIN probe.out.transports = DOMAIN probe.c.transports

-----------------------------------------------------------------------------
(* Machines the log's machine list lacks *)

\* positions of the events of machine m applied since the last reset
AppliedFor(m) == {i \in 1..pointer : data.events[i].machine = m}

\* C23: an event whose machine id the registry lacks is applied to a state
\* created for it with queue 0 and status idle; so the registry's keys are
\* the machines known from the log plus the machine ids (the empty one
\* included) of the events applied since the last reset
C23_LazyMachines ==
    /\ DOMAIN machine_states =
          data.machines \cup {data.events[i].machine : i \in 1..pointer}
    /\ \A m \in DOMAIN machine_states \ data.machines :
          /\ machine_states[m].machine = m
          /\ machine_states[m].last_event =
                Some(data.events[Last(AppliedFor(m))].event)
          /\ (\A i \in AppliedFor(m) : data.events[i].event \in TransportKinds) =>
                /\ machine_states[m].queue = 0
                /\ machine_states[m].status = "idle"

\* a transport event without machine id was applied: the empty id has a state
C23_Witness ==
    /\ lastOp.op \in {"advance", "advance_to", "seek"}
    /\ "" \notin data.machines
    /\ "" \in DOMAIN machine_states
    /\ data.machines # {}
    /\ AppliedFor("") # {}
    /\ machine_states[""].last_event = Some("TRANSPORT_END")
    /\ machine_states[""].queue = 0

-----------------------------------------------------------------------------
(* Forward use: reset, seek to any target, advance by a delta >= 0 *)

NextForward ==
    \/ Reset
    \/ \E t \in Targets : Seek(t)
    \/ \E d \in 0..MaxDelta : Advance(d)

SpecForward == Init /\ [][NextForward]_vars

\* positions of the log events due at the clock
Due == {i \in 1..Len(data.events) : data.events[i].time_min <= current_time}

\* C24: under reset, seek and advance(delta >= 0), after each seek or advance
\* the pointer is the number of log events with time <= current_time and
\* exactly those events were applied since the last reset, each once, as a
\* prefix of the log; right after reset or construction none was applied
\* although current_time = start_time
C24_PointerCountsDue ==
    /\ lastOp.op \in {"seek", "advance"} =>
          /\ pointer = Cardinality(Due)
          /\ Due = 1..pointer
          /\ \A i \in 1..Len(data.events) :
                applied[i] = IF i \in Due THEN 1 ELSE 0
    /\ lastOp.op \in {"init", "reset"} =>
          /\ pointer = 0
          /\ current_time = data.start_time
          /\ \A i \in 1..Len(data.events) : applied[i] = 0

\* an advance by a positive delta applied events and left later ones for later
C24_Witness ==
    /\ lastOp.op = "advance"
    /\ lastOp.arg > 0
    /\ lastOp.ptr >= 1
    /\ pointer > lastOp.ptr
    /\ pointer < Len(data.events)
    /\ data.events[pointer].time_min = current_time

\* a reset left the clock at the time of the first event, which is not applied
C24_WitnessReset ==
    /\ lastOp.op = "reset"
    /\ lastOp.ptr >= 2
    /\ pointer = 0
    /\ data.events[1].time_min = current_time

-----------------------------------------------------------------------------
(* Going back without a reset *)

\* the step is advance_to(target) or advance(delta) aimed behind the clock
BackwardStep ==
    \/ lastOp'.op = "advance_to" /\ lastOp'.arg < current_time
    \/ lastOp'.op = "advance" /\ lastOp'.arg < 0

\* the target of the step, before clamping
BackwardTarget ==
    IF lastOp'.op = "advance" THEN current_time + lastOp'.arg ELSE lastOp'.arg

\* what a backward step leaves alone and what it changes
BackwardEffect ==
    /\ pointer' = pointer
    /\ machine_states' = machine_states
    /\ transports' = transports
    /\ applied' = applied
    /\ current_time' = Max(data.start_time, Min(BackwardTarget, data.end_time))
    /\ current_time' <= current_time
    /\ DOMAIN active_transports' = DOMAIN transports

\* C25 as stated: every advance_to with a target behind current_time (advance
\* with a negative delta) leaves pointer, machine states and tracked
\* transports as they were and only moves current_time back
C25_BackwardAsStated == [][BackwardStep => BackwardEffect]_vars

\* C25: once a seek, advance or advance_to has been made since the last
\* reset, advance_to with a target behind current_time (advance with a
\* negative delta) undoes nothing: pointer, machine states and the tracked
\* transports are as they were, the events applied stay applied, only
\* current_time moves back to the clamped target and the snapshot is rebuilt;
\* right after reset or construction the target is clamped up to start_time
\* and the events at start_time are applied
C25_BackwardKeepsState ==
    [][ BackwardStep =>
          IF lastOp.op \in {"init", "reset"}
          THEN /\ current_time' = data.start_time
               /\ pointer' = Cardinality({i \in 1..Len(data.events) :
                                  data.events[i].time_min <= data.start_time})
          ELSE BackwardEffect ]_vars

\* right after a reset, advance_to below start_time applied the first event
C25_WitnessAfterReset ==
    /\ lastOp.op = "advance_to"
    /\ lastOp.arg < data.start_time
    /\ lastOp.ptr = 0
    /\ pointer >= 1
    /\ current_time = data.start_time

\* after a backward advance_to the state holds an applied event, a machine
\* status and a tracked transport of a time greater than current_time
C25_Witness ==
    /\ lastOp.op = "advance_to"
    /\ lastOp.ptr = pointer
    /\ pointer >= 2
    /\ data.events[pointer].time_min > current_time
    /\ data.events[pointer].event \in {"PROC_END", "BREAKDOWN_START"}
    /\ machine_states[data.events[pointer].machine].last_event
          = Some(data.events[pointer].event)
    /\ \E k \in DOMAIN active_transports :
          active_transports[k].start_time > current_time

-----------------------------------------------------------------------------
(* Transport times *)

\* transport tr starts and ends inside the log's span, and does not end
\* before it starts
TimesInOrder(tr) ==
    /\ data.start_time <= tr.start_time
    /\ tr.start_time <= data.end_time
    /\ tr.end_time # None =>
          /\ tr.start_time <= tr.end_time[1]
          /\ tr.end_time[1] <= data.end_time

\* C26: every tracked transport and every snapshot transport has start_time
\* <= end_time when end_time is set, both within [log start_time, log
\* end_time]; so progress never gets a negative duration from the controller
C26_TransportTimes ==
    /\ \A k \in DOMAIN transports : TimesInOrder(transports[k])
    /\ \A k \in DOMAIN active_transports : TimesInOrder(active_transports[k])

\* a transport ended after it started is tracked and in the snapshot, after
\* the clock went back behind its start
C26_Witness ==
    \E k \in DOMAIN transports :
        /\ k \in DOMAIN active_transports
        /\ transports[k].end_time # None
        /\ transports[k].start_time < transports[k].end_time[1]
        /\ active_transports[k].end_time = transports[k].end_time
        /\ current_time < transports[k].start_time

-----------------------------------------------------------------------------
(* main.py: the playback driver, SimulationWindow *)

\* most user actions (play/pause, reset, slider, speed) in one run
MaxUser == 3

\* the log played: events at 0, 0, 0.2 and 0.5 minutes
PlaybackEvents == SeqOfIndices({2, 3, 7, 10})

\* simulated time per timer tick at each speed setting, in clock ticks:
\* interval * minutes_per_second * speed multiplier, positive for every
\* entry of the speed box when minutes_per_second is positive
Speeds == 1..MaxDelta

\* the window's fields: _playing, the timer's activity, the speed setting;
\* last is the handler that ran last, budget the user actions still to come
Window(playing, timer, speed, last, budget) ==
    [kind |-> "window", playing |-> playing, timer |-> timer, speed |-> speed,
     last |-> last, budget |-> budget]

\* variant: pausing leaves the timer running
ToggleKeepsTimer(w) ==
    IF ~w.playing
    THEN [w EXCEPT !.timer = TRUE, !.playing = TRUE]
    ELSE [w EXCEPT !.playing = FALSE]

toggle_playback(w) ==
    IF ~w.playing
    THEN [w EXCEPT !.timer = TRUE, !.playing = TRUE]
    ELSE [w EXCEPT !.timer = FALSE, !.playing = FALSE]

\* SimulationWindow.__init__ and load_data; run_app may start playback at once
InitPlayback ==
    /\ Constructed(SimulationData(PlaybackEvents))
    /\ \E autoplay \in BOOLEAN :
          probe = Window(autoplay, autoplay, 1, "init", MaxUser)

\* the user's next action, while some are left
ByUser(w, name) == [w EXCEPT !.last = name, !.budget = w.budget - 1]

\* the play/pause button
TogglePlayback ==
    /\ probe.kind = "window"
    /\ probe.budget > 0
    /\ probe' = ByUser(toggle_playback(probe), "toggle")
    /\ UNCHANGED ctlVars

\* the reset button
WindowReset ==
    /\ probe.kind = "window"
    /\ probe.budget > 0
    /\ Install(reset(Self))
    /\ probe' = ByUser(IF probe.playing THEN toggle_playback(probe) ELSE probe, "reset")
    /\ lastOp' = Called("reset", 0, TRUE)
    /\ stage' = Off
    /\ reader' = Rebound(reader, Self)
    /\ UNCHANGED data

\* the speed box
SpeedChanged(speed) ==
    /\ probe.kind = "window"
    /\ probe.budget > 0
    /\ speed # probe.speed
    /\ probe' = ByUser([probe EXCEPT !.speed = speed], "speed")
    /\ UNCHANGED ctlVars

\* the slider moved by the user
SliderChange(target) ==
    /\ probe.kind = "window"
    /\ probe.budget > 0
    /\ Install(seek(Self, target))
    /\ probe' = ByUser(probe, "seek")
    /\ lastOp' = Called("seek", target, target < current_time)
    /\ stage' = Off
    /\ reader' = IF target < current_time THEN Rebound(reader, Self) ELSE reader
    /\ UNCHANGED data

\* _tick, run by the timer while it is active
Tick ==
    /\ probe.kind = "window"
    /\ probe.timer
    /\ \E c1 \in {advance(Self, probe.speed)} :
          LET atEnd == c1.current_time >= data.end_time IN
          /\ \E c2 \in {IF atEnd THEN seek(c1, data.end_time) ELSE c1} : Install(c2)
          /\ probe' = [(IF atEnd THEN toggle_playback(probe) ELSE probe)
                          EXCEPT !.last = "tick"]
    /\ lastOp' = Called("advance", probe.speed, FALSE)
    /\ stage' = Off
    /\ UNCHANGED <<data, reader>>

NextPlayback ==
    \/ TogglePlayback
    \/ WindowReset
    \/ \E speed \in Speeds : SpeedChanged(speed)
    \/ \E t \in data.start_time .. data.end_time : SliderChange(t)
    \/ Tick

\* the timer fires again and again while it is active
SpecPlayback == InitPlayback /\ [][NextPlayback]_vars /\ WF_vars(Tick)

\* what a tick, a reset and a stop amount to
PlaybackSteps ==
    /\ probe'.last = "tick" =>
          /\ probe.playing
          /\ current_time' = Min(current_time + probe.speed, data.end_time)
          /\ current_time' > current_time \/ current_time = data.end_time
          /\ probe'.playing <=> current_time' < data.end_time
    /\ probe'.last = "reset" =>
          /\ ~probe'.playing
          /\ current_time' = data.start_time
    /\ (probe.playing /\ ~probe'.playing) =>
          \/ probe'.last = "tick" /\ current_time' = data.end_time
          \/ probe'.last \in {"toggle", "reset"}

\* C27: playing is true exactly when the timer is active; each tick advances
\* the controller by a positive delta and the tick that brings current_time to
\* end_time stops playback, so playback eventually stops, at end_time unless a
\* pause or reset stopped it first; reset stops playback and puts current_time
\* back to start_time
C27_Playback ==
    /\ [](probe.playing <=> probe.timer)
    /\ [][PlaybackSteps]_vars
    /\ (probe.playing ~> ~probe.playing)

\* playback started by the user ran to the end of the log and stopped there
C27_Witness ==
    /\ probe.kind = "window"
    /\ probe.last = "tick"
    /\ probe.budget < MaxUser
    /\ ~probe.playing
    /\ ~probe.timer
    /\ current_time = data.end_time
    /\ pointer = Len(data.events)

\* a reset after events were applied: not playing, the clock at start_time
C27_WitnessReset ==
    /\ probe.kind = "window"
    /\ probe.last = "reset"
    /\ lastOp.ptr >= 3
    /\ ~probe.playing
    /\ current_time = data.start_time
    /\ pointer = 0

====
